---- MODULE Spec2Model ----
(***************************************************************************)
(* pino-roll: a log-file rotation controller (src/pino-roll.js).           *)
(*                                                                         *)
(* The exported async function parses its options, detects the last file  *)
(* number, constructs the destination (a SonicBoom stream) and registers   *)
(* the handlers that roll the destination to the next numbered file: the   *)
(* 'write' handler (size), the frequency timer, SIGHUP / SIGUSR2, the      *)
(* 'error' handler and the retryEAGAIN hook.  Node runs every handler to   *)
(* completion, so each handler is one action.                              *)
(*                                                                         *)
(* The helpers of ./lib/utils (parseSize, parseFrequency, getNext,         *)
(* buildFileName, detectLastNumber) are not part of the sources at hand;   *)
(* they are modelled from their description in the specification.          *)
(***************************************************************************)
EXTENDS Integers, Sequences, FiniteSets, TLC

VARIABLES
    opts,          \* the options object of the call (never assigned after Init)
    fs,            \* the parent directory: [exists, files]
    pc,            \* position in module.exports: start, awaitDetect, live, rejected
    now,           \* Date.now()
    frequencySpec, \* const frequencySpec   (line 44): [defined, start, next]
    number,        \* let number            (line 46)
    currentSize,   \* let currentSize       (line 48)
    maxSize,       \* const maxSize         (line 49): [defined, bytes]
    destination,   \* const destination     (line 51): [constructed, dest, reopens, closed,
                   \* unacked]; unacked counts the reopens not yet answered by 'ready'
    rollTimeout,   \* let rollTimeout       (line 53): id of the last frequency timer, 0 = undefined
    timers,        \* the armed frequency timers of the event loop: set of [id, at]
    pendingRolls,  \* the armed setTimeout(roll, 0) timers (line 71), oldest first;
                   \* each entry is the number of bytes notified since it was armed
    listeners,     \* the handlers registered on destination and process
    stderr,        \* what was written to process.stderr, oldest first
    uncaught,      \* an exception has escaped a handler
    rollLog,       \* the trigger of every call of roll(), oldest first
    lastRun        \* the handler that ran last and its effects in order

vars == <<opts, fs, pc, now, frequencySpec, number, currentSize, maxSize, destination,
          rollTimeout, timers, pendingRolls, listeners, stderr, uncaught, rollLog, lastRun>>

----------------------------------------------------------------------------
(* Bounds of the model                                                     *)

MaxRolls == 2      \* calls of roll() in one run
MaxDiag == 1       \* diagnostic messages in one run
MaxTime == 7       \* the clock stops here
MaxPending == 2    \* deferred size rolls armed at once

(* Time is counted in ticks; StartTime is the instant of the call.         *)
HourLen == 2
DayLen == 4
StartTime == 5

WriteSizes == {500, 600}

----------------------------------------------------------------------------
(* ./lib/utils, from the specification                                     *)

Digits == {"0", "1", "2", "3", "4", "5", "6", "7", "8", "9"}

DigitVal(c) ==
    CASE c = "0" -> 0 [] c = "1" -> 1 [] c = "2" -> 2 [] c = "3" -> 3 [] c = "4" -> 4
      [] c = "5" -> 5 [] c = "6" -> 6 [] c = "7" -> 7 [] c = "8" -> 8 [] c = "9" -> 9

RECURSIVE DigitsValue(_)
(* The value of a sequence of digit characters.                            *)
DigitsValue(s) ==
    IF s = <<>> THEN 0
    ELSE 10 * DigitsValue(SubSeq(s, 1, Len(s) - 1)) + DigitVal(s[Len(s)])

(* The length of the longest prefix of s made of digits.                   *)
DigitPrefixLen(s) ==
    LET ends == {i \in 0..Len(s) : \A j \in 1..i : s[j] \in Digits}
    IN  CHOOSE i \in ends : \A k \in ends : k <= i

UnitMultiplier(u) ==
    CASE u \in {"k", "K"} -> 1024
      [] u \in {"m", "M"} -> 1024 * 1024
      [] u \in {"g", "G"} -> 1024 * 1024 * 1024

(* parseSize: an integer counts megabytes; a string is digits followed by  *)
(* an optional k, m or g (either case), megabytes without a unit; absent   *)
(* means no size limit; anything else is an invalid configuration.         *)
parseSize(size) ==
    CASE size.kind = "absent" -> [err |-> FALSE, defined |-> FALSE, bytes |-> 0]
      [] size.kind = "num" -> [err |-> FALSE, defined |-> TRUE, bytes |-> size.n * 1024 * 1024]
      [] size.kind = "str" ->
            LET s == size.s
                p == DigitPrefixLen(s)
                v == DigitsValue(SubSeq(s, 1, p))
            IN  IF p = 0 THEN [err |-> TRUE, defined |-> FALSE, bytes |-> 0]
                ELSE IF p = Len(s)
                     THEN [err |-> FALSE, defined |-> TRUE, bytes |-> v * 1024 * 1024]
                ELSE IF p + 1 = Len(s) /\ s[p + 1] \in {"k", "K", "m", "M", "g", "G"}
                     THEN [err |-> FALSE, defined |-> TRUE, bytes |-> v * UnitMultiplier(s[p + 1])]
                ELSE [err |-> TRUE, defined |-> FALSE, bytes |-> 0]

BucketLen(frequency) == IF frequency.kind = "daily" THEN DayLen ELSE HourLen

(* The start of the calendar bucket t falls in.                            *)
BucketStart(frequency, t) == (t \div BucketLen(frequency)) * BucketLen(frequency)

(* getNext: the next boundary strictly after t.                            *)
getNext(frequency, t) ==
    IF frequency.kind \in {"daily", "hourly"}
    THEN BucketStart(frequency, t) + BucketLen(frequency)
    ELSE t + frequency.ms

(* parseFrequency: "daily" and "hourly" are aligned to the calendar; a     *)
(* number is an interval in milliseconds whose start is the instant of the *)
(* call; absent means no frequency; anything else is invalid.              *)
parseFrequency(frequency, t) ==
    CASE frequency.kind = "absent" ->
            [err |-> FALSE, spec |-> [defined |-> FALSE, start |-> 0, next |-> 0]]
      [] frequency.kind \in {"daily", "hourly"} ->
            [err |-> FALSE, spec |-> [defined |-> TRUE, start |-> BucketStart(frequency, t),
                                      next |-> getNext(frequency, t)]]
      [] frequency.kind = "ms" /\ frequency.ms > 0 ->
            [err |-> FALSE, spec |-> [defined |-> TRUE, start |-> t,
                                      next |-> getNext(frequency, t)]]
      [] OTHER ->
            [err |-> TRUE, spec |-> [defined |-> FALSE, start |-> 0, next |-> 0]]

(* A formatted date: the day of t.                                         *)
FormatDate(t) == <<"date", t \div DayLen>>

(* buildFileName: base name, optional date, number, optional extension.    *)
buildFileName(file, n, extension, dateFormat, t) ==
    <<file>> \o (IF dateFormat THEN <<FormatDate(t)>> ELSE <<>>)
             \o <<n>>
             \o (IF extension = "" THEN <<>> ELSE <<extension>>)

(* The position of the number in a name buildFileName builds.              *)
NumberIndex(dateFormat) == IF dateFormat THEN 3 ELSE 2

(* A directory entry carries the name of the file and the time it was      *)
(* written; it matches when it has the shape buildFileName gives a name.   *)
MatchesName(name, file, extension, dateFormat) ==
    /\ Len(name) = NumberIndex(dateFormat) + (IF extension = "" THEN 0 ELSE 1)
    /\ name[1] = file
    /\ extension # "" => name[Len(name)] = extension

SetMax(S) == CHOOSE m \in S : \A k \in S : k <= m

(* detectLastNumber: the highest number among the matching files, of the   *)
(* current bucket only when a bucket start is given; 0 when there is none; *)
(* a missing directory is created when mkdir is set and an error if not.   *)
detectLastNumber(dir, file, extension, dateFormat, mkdir, spec) ==
    IF ~dir.exists /\ ~mkdir THEN [err |-> TRUE, number |-> 0]
    ELSE LET found == {f.name[NumberIndex(dateFormat)] :
                          f \in {g \in dir.files :
                                    /\ dir.exists
                                    /\ MatchesName(g.name, file, extension, dateFormat)
                                    /\ spec.defined => g.time >= spec.start}}
         IN  [err |-> FALSE, number |-> IF found = {} THEN 0 ELSE SetMax(found)]

----------------------------------------------------------------------------
(* The calls the model explores                                            *)

File == "app"

Frequencies ==
    {[kind |-> "absent"], [kind |-> "daily"], [kind |-> "hourly"],
     [kind |-> "ms", ms |-> 3], [kind |-> "ms", ms |-> 0], [kind |-> "other"]}

Sizes ==
    {[kind |-> "absent"], [kind |-> "num", n |-> 0], [kind |-> "num", n |-> 1],
     [kind |-> "str", s |-> <<"1", "k">>], [kind |-> "str", s |-> <<"1", "0", "K">>],
     [kind |-> "str", s |-> <<"5", "m">>], [kind |-> "str", s |-> <<"1", "G">>],
     [kind |-> "str", s |-> <<"2">>], [kind |-> "str", s |-> <<"5", "x">>],
     [kind |-> "str", s |-> <<"k">>]}

(* What earlier runs of the same options may have left in the directory,   *)
(* next to a file of another base name.                                    *)
PriorFiles(o) ==
    {[name |-> buildFileName(o.file, n, o.extension, o.dateFormat, t), time |-> t] :
        n \in {0, 1, 2}, t \in {StartTime - DayLen, StartTime - 1}}
    \cup {[name |-> buildFileName("other", 7, o.extension, o.dateFormat, StartTime - 1),
           time |-> StartTime - 1]}

Directories(o) ==
    {[exists |-> FALSE, files |-> {}]}
    \cup {[exists |-> TRUE, files |-> F] :
             F \in {G \in SUBSET PriorFiles(o) :
                       /\ Cardinality(G) <= 2
                       /\ \A f, g \in G : f.name = g.name => f = g}}

AllOptions ==
    [file : {File}, size : Sizes, frequency : Frequencies, dateFormat : BOOLEAN,
     extension : {"", "log"}, mkdir : BOOLEAN, sync : {TRUE}]

(* The options of the runs whose handlers are explored.                    *)
EngineOptions ==
    [file : {File},
     size : {[kind |-> "absent"], [kind |-> "num", n |-> 0], [kind |-> "str", s |-> <<"1", "k">>]},
     frequency : {[kind |-> "absent"], [kind |-> "hourly"], [kind |-> "ms", ms |-> 2]},
     dateFormat : {FALSE}, extension : {"log"}, mkdir : BOOLEAN, sync : {TRUE}]

(* The options of the runs followed under fair scheduling: every trigger   *)
(* is configured.                                                          *)
FairOptions ==
    [file : {File},
     size : {[kind |-> "str", s |-> <<"1", "k">>]},
     frequency : {[kind |-> "hourly"]},
     dateFormat : {FALSE}, extension : {"log"}, mkdir : {TRUE}, sync : {TRUE}]

(* A run on a destination that opens its files asynchronously (sync is an  *)
(* option of SonicBoom, passed through opts): reopen returns before the    *)
(* file is open and the destination emits 'ready' when it is.              *)
AsyncOptions ==
    [file : {File},
     size : {[kind |-> "str", s |-> <<"1", "k">>]},
     frequency : {[kind |-> "hourly"]},
     dateFormat : {FALSE}, extension : {"log"}, mkdir : {TRUE}, sync : {FALSE}]

EngineDirectories(o) ==
    {[exists |-> TRUE,
      files |-> {[name |-> buildFileName(o.file, 2, o.extension, o.dateFormat, StartTime - 1),
                  time |-> StartTime - 1]}]}

NoDestination ==
    [constructed |-> FALSE, dest |-> <<>>, reopens |-> <<>>, closed |-> FALSE, unacked |-> 0]
NoRun == [handler |-> "none", effects |-> <<>>]

(* The state when module.exports is called with options o on directory d. *)
InitWith(o, d) ==
    /\ opts = o
    /\ fs = d
    /\ pc = "start"
    /\ now = StartTime
    /\ frequencySpec = [defined |-> FALSE, start |-> 0, next |-> 0]
    /\ number = 0
    /\ currentSize = 0
    /\ maxSize = [defined |-> FALSE, bytes |-> 0]
    /\ destination = NoDestination
    /\ rollTimeout = 0
    /\ timers = {}
    /\ pendingRolls = <<>>
    /\ listeners = {}
    /\ stderr = <<>>
    /\ uncaught = FALSE
    /\ rollLog = <<>>
    /\ lastRun = NoRun

Init == \E o \in EngineOptions : \E d \in EngineDirectories(o) : InitWith(o, d)

InitStartup == \E o \in AllOptions : \E d \in Directories(o) : InitWith(o, d)

InitFair == \E o \in FairOptions : \E d \in EngineDirectories(o) : InitWith(o, d)

InitAsync == \E o \in AsyncOptions : \E d \in EngineDirectories(o) : InitWith(o, d)

----------------------------------------------------------------------------
(* module.exports, lines 43-108                                            *)

(* Line 44, and the call of detectLastNumber up to its await.              *)
Start ==
    /\ pc = "start"
    /\ LET pf == parseFrequency(opts.frequency, now)
       IN  IF pf.err
           THEN /\ pc' = "rejected"
                /\ UNCHANGED frequencySpec
           ELSE /\ pc' = "awaitDetect"
                /\ frequencySpec' = pf.spec
    /\ UNCHANGED <<opts, fs, now, number, currentSize, maxSize, destination, rollTimeout,
                   timers, pendingRolls, listeners, stderr, uncaught, rollLog, lastRun>>

(* if (maxSize), line 65.                                                  *)
Truthy(size) == size.defined /\ size.bytes # 0

(* Variant: the 'write' handler is registered whatever maxSize is.         *)
RegisteredWriteAlways(spec, size) ==
    {"error", "retryEAGAIN", "SIGHUP", "SIGUSR2", "write"}
    \cup (IF spec.defined THEN {"close"} ELSE {})

(* The handlers lines 54-96 register.                                      *)
Registered(spec, size) ==
    {"error", "retryEAGAIN", "SIGHUP", "SIGUSR2"}
    \cup (IF spec.defined THEN {"close"} ELSE {})
    \cup (IF Truthy(size) THEN {"write"} ELSE {})

(* Variant: the first file is opened at the number after the detected one. *)
ConstructAtNext(n) ==
    [constructed |-> TRUE,
     dest |-> buildFileName(opts.file, n + 1, opts.extension, opts.dateFormat, now),
     reopens |-> <<>>,
     closed |-> FALSE,
     unacked |-> 0]

(* new SonicBoom({ ...opts, dest: buildFileName(file, number, ...) }), line 51. *)
Construct(n) ==
    [constructed |-> TRUE,
     dest |-> buildFileName(opts.file, n, opts.extension, opts.dateFormat, now),
     reopens |-> <<>>,
     closed |-> FALSE,
     unacked |-> 0]

(* Variant: the destination is constructed and the handlers registered     *)
(* before the size is parsed.                                              *)
ResumeConstructFirst ==
    /\ pc = "awaitDetect"
    /\ LET d == detectLastNumber(fs, opts.file, opts.extension, opts.dateFormat,
                                 opts.mkdir, frequencySpec)
           ps == parseSize(opts.size)
       IN  IF d.err
           THEN /\ pc' = "rejected"
                /\ UNCHANGED <<fs, number, maxSize, destination, rollTimeout, timers, listeners>>
           ELSE /\ fs' = [fs EXCEPT !.exists = TRUE]
                /\ number' = d.number
                /\ destination' = Construct(d.number)
                /\ listeners' = Registered(frequencySpec, ps)
                /\ IF frequencySpec.defined
                   THEN /\ rollTimeout' = 1
                        /\ timers' = {[id |-> 1, at |-> frequencySpec.next]}
                   ELSE UNCHANGED <<rollTimeout, timers>>
                /\ IF ps.err
                   THEN /\ pc' = "rejected"
                        /\ UNCHANGED maxSize
                   ELSE /\ pc' = "live"
                        /\ maxSize' = [defined |-> ps.defined, bytes |-> ps.bytes]
    /\ UNCHANGED <<opts, now, frequencySpec, currentSize, pendingRolls, stderr, uncaught,
                   rollLog, lastRun>>

(* The rest of the function once detectLastNumber has settled: lines 46-107. *)
Resume ==
    /\ pc = "awaitDetect"
    /\ LET d == detectLastNumber(fs, opts.file, opts.extension, opts.dateFormat,
                                 opts.mkdir, frequencySpec)
           ps == parseSize(opts.size)
       IN  IF d.err
           THEN /\ pc' = "rejected"
                /\ UNCHANGED <<fs, number, maxSize, destination, rollTimeout, timers, listeners>>
           ELSE /\ fs' = [fs EXCEPT !.exists = TRUE]
                /\ number' = d.number
                /\ IF ps.err
                   THEN /\ pc' = "rejected"
                        /\ UNCHANGED <<maxSize, destination, rollTimeout, timers, listeners>>
                   ELSE /\ pc' = "live"
                        /\ maxSize' = [defined |-> ps.defined, bytes |-> ps.bytes]
                        /\ destination' = Construct(d.number)
                        /\ listeners' = Registered(frequencySpec, ps)
                        /\ IF frequencySpec.defined
                           THEN /\ rollTimeout' = 1
                                /\ timers' = {[id |-> 1, at |-> frequencySpec.next]}
                           ELSE UNCHANGED <<rollTimeout, timers>>
    /\ UNCHANGED <<opts, now, frequencySpec, currentSize, pendingRolls, stderr, uncaught,
                   rollLog, lastRun>>

----------------------------------------------------------------------------
(* roll, lines 61-63                                                       *)

(* ++number                                                                *)
NextNumber(n) == n + 1

(* Variant: number++ in place of ++number.                                 *)
RollPathPostIncrement(n) ==
    buildFileName(opts.file, n, opts.extension, opts.dateFormat, now)

(* The path roll asks the destination to reopen at.                        *)
RollPath(n) == buildFileName(opts.file, NextNumber(n), opts.extension, opts.dateFormat, now)

(* The model follows at most MaxRolls calls of roll.                       *)
CanRoll == Len(rollLog) < MaxRolls

(* Variant: the path is built from number + 1, which is not stored.        *)
RollWithoutStore(trigger) ==
    /\ number' = number
    /\ destination' = [destination EXCEPT !.reopens = Append(@, RollPath(number)),
                                          !.unacked = IF opts.sync THEN 0 ELSE @ + 1]
    /\ rollLog' = Append(rollLog, trigger)

(* roll(), called by trigger: the number is incremented and the reopen     *)
(* requested; whether reopen returns or throws is the destination's affair. *)
Roll(trigger) ==
    /\ number' = NextNumber(number)
    /\ destination' = [destination EXCEPT !.reopens = Append(@, RollPath(number)),
                                          !.unacked = IF opts.sync THEN 0 ELSE @ + 1]
    /\ rollLog' = Append(rollLog, trigger)

(* The effects of a call of roll, in order.                                *)
RollEffects(throws) == IF throws THEN <<"reopen", "throw">> ELSE <<"reopen">>

----------------------------------------------------------------------------
(* The handlers.  Every handler runs to completion.  The destination is    *)
(* SonicBoom, whose reopen returns or throws (it throws on a destroyed     *)
(* destination and, when synchronous, on a file it cannot open): `throws`  *)
(* is which of the two happens in this call of roll.  An exception ends    *)
(* the handler where it is raised and escapes it, no handler has a catch.  *)
(* The destination emits 'write' and 'error' and calls retryEAGAIN until   *)
(* it has emitted 'close'; signals and armed timers are not bound to it.   *)

Live == pc = "live"
Open == Live /\ ~destination.closed

(* Variant: the bytes beyond the threshold are carried over.               *)
SizeCarriedOver(size, writtenSize) ==
    IF size + writtenSize >= maxSize.bytes
    THEN size + writtenSize - maxSize.bytes
    ELSE size + writtenSize

(* destination.on('write'), lines 66-73: the new currentSize.              *)
SizeAfterWrite(size, writtenSize) ==
    IF size + writtenSize >= maxSize.bytes THEN 0 ELSE size + writtenSize

(* destination.on('write'), line 68: does this notification arm a roll?    *)
ReachesMax(size, writtenSize) == size + writtenSize >= maxSize.bytes

(* Variant: the roll is executed inside the notification handler.          *)
WriteRollsInline(writtenSize) ==
    /\ Open
    /\ "write" \in listeners
    /\ IF ReachesMax(currentSize, writtenSize)
       THEN /\ CanRoll
            /\ Roll("size")
       ELSE UNCHANGED <<number, destination, rollLog>>
    /\ currentSize' = SizeAfterWrite(currentSize, writtenSize)
    /\ lastRun' = [handler |-> "write",
                   effects |-> IF ReachesMax(currentSize, writtenSize)
                               THEN RollEffects(FALSE) ELSE <<>>]
    /\ UNCHANGED <<opts, fs, pc, now, frequencySpec, maxSize, rollTimeout, timers,
                   pendingRolls, listeners, stderr, uncaught>>

(* The destination has completed a write of writtenSize bytes.             *)
Write(writtenSize) ==
    /\ Open
    /\ IF "write" \in listeners
       THEN /\ ReachesMax(currentSize, writtenSize) => Len(pendingRolls) < MaxPending
            /\ currentSize' = SizeAfterWrite(currentSize, writtenSize)
            /\ pendingRolls' =
                  [i \in DOMAIN pendingRolls |-> pendingRolls[i] + writtenSize]
                  \o (IF ReachesMax(currentSize, writtenSize) THEN <<0>> ELSE <<>>)
            /\ lastRun' = [handler |-> "write",
                           effects |-> IF ReachesMax(currentSize, writtenSize)
                                       THEN <<"setTimeout0">> ELSE <<>>]
       ELSE /\ lastRun' = [handler |-> "write", effects |-> <<>>]
            /\ UNCHANGED <<currentSize, pendingRolls>>
    /\ UNCHANGED <<opts, fs, pc, now, frequencySpec, number, maxSize, destination,
                   rollTimeout, timers, listeners, stderr, uncaught, rollLog>>

(* The timer of line 71 fires: roll().                                     *)
DeferredRoll(throws) ==
    /\ Live
    /\ pendingRolls # <<>>
    /\ CanRoll
    /\ Roll("size")
    /\ pendingRolls' = Tail(pendingRolls)
    /\ uncaught' = (uncaught \/ throws)
    /\ lastRun' = [handler |-> "deferredRoll", effects |-> RollEffects(throws)]
    /\ UNCHANGED <<opts, fs, pc, now, frequencySpec, currentSize, maxSize, rollTimeout,
                   timers, listeners, stderr>>

(* The effects of the body shared by the 'error' handler (lines 76-81) and *)
(* retryEAGAIN (lines 83-88): roll when mkdir is set, then the message.    *)
ReportEffects(throws) ==
    IF opts.mkdir
    THEN IF throws THEN RollEffects(TRUE) ELSE RollEffects(FALSE) \o <<"stderr">>
    ELSE <<"stderr">>

Report(handler, message, throws) ==
    /\ Len(stderr) < MaxDiag
    /\ opts.mkdir => CanRoll
    /\ ~opts.mkdir => ~throws
    /\ IF opts.mkdir
       THEN Roll("error")
       ELSE UNCHANGED <<number, destination, rollLog>>
    /\ stderr' = IF "stderr" \in {ReportEffects(throws)[i] : i \in DOMAIN ReportEffects(throws)}
                 THEN Append(stderr, message) ELSE stderr
    /\ uncaught' = (uncaught \/ throws)
    /\ lastRun' = [handler |-> handler, effects |-> ReportEffects(throws)]
    /\ UNCHANGED <<opts, fs, pc, now, frequencySpec, currentSize, maxSize, rollTimeout,
                   timers, pendingRolls, listeners>>

(* destination.on('error'), lines 76-81.                                   *)
Error(throws) ==
    /\ Open
    /\ "error" \in listeners
    /\ Report("error", "Pino Error", throws)

(* destination.retryEAGAIN, lines 83-88.                                   *)
RetryEAGAIN(throws) ==
    /\ Open
    /\ "retryEAGAIN" \in listeners
    /\ Report("retryEAGAIN", "Pino retryEAGAIN", throws)

(* Variant: a signal right after another signal is ignored.                *)
SignalDebounced(sig, throws) ==
    /\ Live
    /\ sig \in listeners
    /\ CanRoll
    /\ IF lastRun.handler \in {"SIGHUP", "SIGUSR2"}
       THEN UNCHANGED <<number, destination, rollLog>>
       ELSE Roll("signal")
    /\ uncaught' = (uncaught \/ throws)
    /\ lastRun' = [handler |-> sig, effects |-> RollEffects(throws)]
    /\ UNCHANGED <<opts, fs, pc, now, frequencySpec, currentSize, maxSize, rollTimeout,
                   timers, pendingRolls, listeners, stderr>>

(* process.on('SIGHUP') and process.on('SIGUSR2'), lines 90-96.            *)
Signal(sig, throws) ==
    /\ Live
    /\ sig \in listeners
    /\ CanRoll
    /\ Roll("signal")
    /\ uncaught' = (uncaught \/ throws)
    /\ lastRun' = [handler |-> sig, effects |-> RollEffects(throws)]
    /\ UNCHANGED <<opts, fs, pc, now, frequencySpec, currentSize, maxSize, rollTimeout,
                   timers, pendingRolls, listeners, stderr>>

SIGHUP(throws) == Signal("SIGHUP", throws)
SIGUSR2(throws) == Signal("SIGUSR2", throws)

(* clearTimeout(rollTimeout)                                               *)
ClearTimeout(armed, id) == {tm \in armed : tm.id # id}

(* scheduleRoll, lines 98-105: the timers armed afterwards.                *)
ScheduleRoll(armed, id, next) == ClearTimeout(armed, id) \cup {[id |-> id + 1, at |-> next]}

(* Variant: the timer roll stands in for the size rolls that are armed.    *)
TimerFireCoalesces(throws) ==
    /\ Live
    /\ CanRoll
    /\ \E tm \in timers :
          /\ now >= tm.at
          /\ Roll("timer")
          /\ IF throws
             THEN /\ timers' = timers \ {tm}
                  /\ UNCHANGED <<frequencySpec, rollTimeout>>
             ELSE /\ frequencySpec' = [frequencySpec EXCEPT !.next = getNext(opts.frequency, now)]
                  /\ timers' = ScheduleRoll(timers \ {tm}, rollTimeout, frequencySpec'.next)
                  /\ rollTimeout' = rollTimeout + 1
    /\ pendingRolls' = <<>>
    /\ uncaught' = (uncaught \/ throws)
    /\ lastRun' = [handler |-> "timer",
                   effects |-> IF throws THEN RollEffects(TRUE)
                               ELSE RollEffects(FALSE) \o <<"getNext", "clearTimeout", "setTimeout">>]
    /\ UNCHANGED <<opts, fs, pc, now, currentSize, maxSize, listeners, stderr>>

(* The callback of scheduleRoll's timer, lines 100-104.                    *)
TimerFire(throws) ==
    /\ Live
    /\ CanRoll
    /\ \E tm \in timers :
          /\ now >= tm.at
          /\ Roll("timer")
          /\ IF throws
             THEN /\ timers' = timers \ {tm}
                  /\ UNCHANGED <<frequencySpec, rollTimeout>>
             ELSE /\ frequencySpec' = [frequencySpec EXCEPT !.next = getNext(opts.frequency, now)]
                  /\ timers' = ScheduleRoll(timers \ {tm}, rollTimeout, frequencySpec'.next)
                  /\ rollTimeout' = rollTimeout + 1
    /\ uncaught' = (uncaught \/ throws)
    /\ lastRun' = [handler |-> "timer",
                   effects |-> IF throws THEN RollEffects(TRUE)
                               ELSE RollEffects(FALSE) \o <<"getNext", "clearTimeout", "setTimeout">>]
    /\ UNCHANGED <<opts, fs, pc, now, currentSize, maxSize, pendingRolls, listeners, stderr>>

(* Variant: no 'close' handler clears the timer.                           *)
CloseLeavesTimer ==
    /\ Open
    /\ destination' = [destination EXCEPT !.closed = TRUE]
    /\ lastRun' = [handler |-> "close", effects |-> <<>>]
    /\ UNCHANGED <<opts, fs, pc, now, frequencySpec, number, currentSize, maxSize,
                   rollTimeout, timers, pendingRolls, listeners, stderr, uncaught, rollLog>>

(* The destination emits 'close'; the handler of lines 55-57 runs once.    *)
Close ==
    /\ Open
    /\ destination' = [destination EXCEPT !.closed = TRUE]
    /\ IF "close" \in listeners
       THEN /\ timers' = ClearTimeout(timers, rollTimeout)
            /\ listeners' = listeners \ {"close"}
            /\ lastRun' = [handler |-> "close", effects |-> <<"clearTimeout">>]
       ELSE /\ lastRun' = [handler |-> "close", effects |-> <<>>]
            /\ UNCHANGED <<timers, listeners>>
    /\ UNCHANGED <<opts, fs, pc, now, frequencySpec, number, currentSize, maxSize,
                   rollTimeout, pendingRolls, stderr, uncaught, rollLog>>

(* An asynchronous destination has opened the file of a reopen and emits   *)
(* 'ready'; the code registers no handler for it.                          *)
Ready ==
    /\ Live
    /\ ~opts.sync
    /\ destination.unacked > 0
    /\ destination' = [destination EXCEPT !.unacked = @ - 1]
    /\ lastRun' = [handler |-> "ready", effects |-> <<>>]
    /\ UNCHANGED <<opts, fs, pc, now, frequencySpec, number, currentSize, maxSize,
                   rollTimeout, timers, pendingRolls, listeners, stderr, uncaught, rollLog>>

(* Time passes.                                                            *)
Tick ==
    /\ Live
    /\ now < MaxTime
    /\ now' = now + 1
    /\ UNCHANGED <<opts, fs, pc, frequencySpec, number, currentSize, maxSize, destination,
                   rollTimeout, timers, pendingRolls, listeners, stderr, uncaught, rollLog,
                   lastRun>>

----------------------------------------------------------------------------

OnWrite == \E writtenSize \in WriteSizes : Write(writtenSize)
OnDeferredRoll == \E throws \in BOOLEAN : DeferredRoll(throws)
OnError == \E throws \in BOOLEAN : Error(throws)
OnRetryEAGAIN == \E throws \in BOOLEAN : RetryEAGAIN(throws)
OnSIGHUP == \E throws \in BOOLEAN : SIGHUP(throws)
OnSIGUSR2 == \E throws \in BOOLEAN : SIGUSR2(throws)
OnTimer == \E throws \in BOOLEAN : TimerFire(throws)

Next ==
    \/ Start
    \/ Resume
    \/ OnWrite
    \/ OnDeferredRoll
    \/ OnError
    \/ OnRetryEAGAIN
    \/ OnSIGHUP
    \/ OnSIGUSR2
    \/ OnTimer
    \/ Close
    \/ Tick

Spec == Init /\ [][Next]_vars

(* The event loop of Node: the clock advances, a timer that is due has its *)
(* callback run, and so has a timer of delay 0.                            *)
SpecFair ==
    /\ InitFair
    /\ [][Next]_vars
    /\ WF_vars(Tick)
    /\ WF_vars(OnTimer)
    /\ WF_vars(OnDeferredRoll)

(* The handlers on an asynchronous destination.                            *)
NextAsync == Next \/ Ready

SpecAsync == InitAsync /\ [][NextAsync]_vars

(* The startup alone, over every combination of options and directory.     *)
NextStartup == Start \/ Resume

SpecStartup == InitStartup /\ [][NextStartup]_vars

----------------------------------------------------------------------------
(* Properties                                                              *)

(* The number the destination was constructed at.                          *)
InitialNumber == destination.dest[NumberIndex(opts.dateFormat)]

(* The numbers of the paths the destination was asked to reopen at.        *)
ReopenNumber(i) == destination.reopens[i][NumberIndex(opts.dateFormat)]

(* A call of roll() happens in this step.                                  *)
RollStep == Len(rollLog') = Len(rollLog) + 1

(* C1: currentNumber never decreases; every call of roll, whatever its     *)
(* trigger, increases it by exactly 1 and asks the destination to reopen   *)
(* at the path built from the new number, and nothing else changes the     *)
(* number; the numbers reopened at are initial+1, initial+2, ... with no   *)
(* repetition and no gap.                                                  *)
C1_Sequence ==
    Live => /\ Len(destination.reopens) = Len(rollLog)
            /\ number = InitialNumber + Len(rollLog)
            /\ \A i \in DOMAIN destination.reopens : ReopenNumber(i) = InitialNumber + i

C1_Step ==
    Live => /\ number' >= number
            /\ Len(rollLog') \in {Len(rollLog), Len(rollLog) + 1}
            /\ RollStep =>
                  /\ number' = number + 1
                  /\ destination'.reopens =
                        Append(destination.reopens,
                               buildFileName(opts.file, number', opts.extension,
                                             opts.dateFormat, now))
            /\ ~RollStep => /\ number' = number
                            /\ destination'.reopens = destination.reopens

C1_RollsCountUp == [](C1_Sequence) /\ [][C1_Step]_vars

C1_Witness ==
    /\ Live
    /\ Len(destination.reopens) = 2
    /\ rollLog[1] # rollLog[2]
    /\ number = InitialNumber + 2

(* C2: once exactly one size roll and one timer roll have run, in either   *)
(* order, and whatever ran between the write notification, the deferred    *)
(* roll and the timer callback, currentNumber is the initial number + 2.   *)
C2_SizeAndTimer ==
    (Live /\ rollLog \in {<<"size", "timer">>, <<"timer", "size">>})
        => /\ number = InitialNumber + 2
           /\ ReopenNumber(1) = InitialNumber + 1
           /\ ReopenNumber(2) = InitialNumber + 2

(* The timer fired between the write notification and its deferred roll.   *)
C2_Witness ==
    /\ Live
    /\ rollLog = <<"timer", "size">>
    /\ lastRun.handler = "deferredRoll"
    /\ pendingRolls = <<>>
    /\ number = InitialNumber + 2

(* C3 as stated: a notification that makes the count reach the threshold   *)
(* arms exactly one roll, and when that roll has run currentBytes is the   *)
(* sum of the bytes notified since that roll was armed.                    *)
C3_Stated ==
    [][/\ \A w \in WriteSizes :
             (Write(w) /\ "write" \in listeners) =>
                 Len(pendingRolls') = Len(pendingRolls)
                                      + (IF ReachesMax(currentSize, w) THEN 1 ELSE 0)
       /\ \A throws \in BOOLEAN :
             DeferredRoll(throws) => /\ number' = number + 1
                                     /\ currentSize' = Head(pendingRolls)]_vars

(* C3, amended: a notification that makes the count reach the threshold    *)
(* arms exactly one roll, and when a deferred roll has run currentBytes is *)
(* the sum of the bytes notified since the latest roll was armed (the roll *)
(* that ran, unless the threshold was reached again before it ran).        *)
C3_SinceLatestArmed ==
    [][/\ \A w \in WriteSizes :
             (Write(w) /\ "write" \in listeners) =>
                 Len(pendingRolls') = Len(pendingRolls)
                                      + (IF ReachesMax(currentSize, w) THEN 1 ELSE 0)
       /\ \A throws \in BOOLEAN :
             DeferredRoll(throws) =>
                 /\ number' = number + 1
                 /\ currentSize' = pendingRolls[Len(pendingRolls)]
                 /\ Len(pendingRolls) = 1 => currentSize' = Head(pendingRolls)]_vars

(* The threshold was reached once, a write was notified, the roll ran.     *)
C3_Witness ==
    /\ lastRun.handler = "deferredRoll"
    /\ rollLog = <<"size">>
    /\ pendingRolls = <<>>
    /\ currentSize \in WriteSizes

(* C4: the handler of a notification that makes currentBytes reach the     *)
(* threshold leaves currentNumber and the destination alone, sets          *)
(* currentBytes to 0 and arms the roll for a later step; a notification    *)
(* that arrives while a roll is armed and does not reach the threshold is  *)
(* added to currentBytes, which counts from 0 since the roll was armed.    *)
C4_Armed ==
    (Live /\ pendingRolls # <<>>) => currentSize = pendingRolls[Len(pendingRolls)]

C4_Step ==
    \A w \in WriteSizes :
        (Write(w) /\ "write" \in listeners) =>
            /\ number' = number
            /\ destination' = destination
            /\ rollLog' = rollLog
            /\ IF currentSize + w >= maxSize.bytes
               THEN /\ currentSize' = 0
                    /\ Len(pendingRolls') = Len(pendingRolls) + 1
               ELSE /\ currentSize' = currentSize + w
                    /\ Len(pendingRolls') = Len(pendingRolls)

C4_RollDeferred == [](C4_Armed) /\ [][C4_Step]_vars

(* A write was notified between the arming of a roll and its execution.    *)
C4_Witness ==
    /\ lastRun = [handler |-> "write", effects |-> <<>>]
    /\ pendingRolls # <<>>
    /\ currentSize \in WriteSizes
    /\ rollLog = <<>>

(* C5: every delivery of SIGHUP or SIGUSR2 is exactly one call of roll in  *)
(* the handler itself, whatever the size counter and the timer are, and it *)
(* changes neither; after two signals and no other roll the number is the  *)
(* initial number + 2 and the reopens were at initial + 1 and initial + 2.  *)
C5_Two ==
    (Live /\ rollLog = <<"signal", "signal">>)
        => /\ number = InitialNumber + 2
           /\ ReopenNumber(1) = InitialNumber + 1
           /\ ReopenNumber(2) = InitialNumber + 2

C5_Step ==
    \A throws \in BOOLEAN :
        (SIGHUP(throws) \/ SIGUSR2(throws)) =>
            /\ number' = number + 1
            /\ Len(destination'.reopens) = Len(destination.reopens) + 1
            /\ rollLog' = Append(rollLog, "signal")
            /\ currentSize' = currentSize
            /\ pendingRolls' = pendingRolls
            /\ timers' = timers
            /\ frequencySpec' = frequencySpec

C5_SignalRolls == [](C5_Two) /\ [][C5_Step]_vars

(* Two signals in a row, with bytes counted and the timer armed.           *)
C5_Witness ==
    /\ rollLog = <<"signal", "signal">>
    /\ lastRun.handler = "SIGUSR2"
    /\ number = InitialNumber + 2
    /\ currentSize > 0
    /\ timers # {}

(* C6 as stated: an 'error' event and a call of retryEAGAIN each roll      *)
(* exactly once when mkdir is set and change nothing of the rotation state *)
(* when it is not, and each writes exactly one diagnostic message.         *)
C6_Stated ==
    [][\A throws \in BOOLEAN :
          (Error(throws) \/ RetryEAGAIN(throws)) =>
              /\ opts.mkdir => /\ number' = number + 1
                               /\ Len(rollLog') = Len(rollLog) + 1
              /\ ~opts.mkdir => /\ number' = number
                                /\ rollLog' = rollLog
                                /\ currentSize' = currentSize
                                /\ timers' = timers
              /\ Len(stderr') = Len(stderr) + 1]_vars

(* C7: with a frequency, once 'close' has been emitted no frequency timer  *)
(* is armed, none is armed again, and the timer callback does not run.     *)
C7_Cancelled ==
    (Live /\ frequencySpec.defined /\ destination.closed) => timers = {}

C7_Step ==
    (Live /\ frequencySpec.defined /\ destination.closed)
        => /\ timers' = {}
           /\ \A throws \in BOOLEAN : ~TimerFire(throws)
           /\ RollStep => rollLog'[Len(rollLog')] # "timer"

C7_NoTimerAfterClose == [](C7_Cancelled) /\ [][C7_Step]_vars

(* The deadline passes after the close.                                    *)
C7_Witness ==
    /\ Live
    /\ frequencySpec.defined
    /\ destination.closed
    /\ now >= frequencySpec.next
    /\ CanRoll

(* C8 as stated: after 'close' no trigger changes currentNumber, asks the  *)
(* destination to reopen or lets an exception escape.                      *)
C8_Stated ==
    [][(Live /\ destination.closed) =>
          /\ number' = number
          /\ destination'.reopens = destination.reopens
          /\ uncaught' = uncaught]_vars

----------------------------------------------------------------------------
(* Properties of the startup (SpecStartup)                                 *)

(* The startup fails: one of the three helpers reports an error.           *)
StartupFails ==
    \/ parseFrequency(opts.frequency, StartTime).err
    \/ ~fs.exists /\ ~opts.mkdir
    \/ parseSize(opts.size).err

(* C9: when parseFrequency, detectLastNumber or parseSize fails, the call  *)
(* is rejected with no destination constructed, no timer armed and no      *)
(* handler registered, and it never becomes live.                          *)
C9_NothingOpened ==
    (StartupFails \/ pc = "rejected")
        => /\ pc # "live"
           /\ ~destination.constructed
           /\ timers = {}
           /\ rollTimeout = 0
           /\ listeners = {}
           /\ pendingRolls = <<>>

(* The size is what fails, after the last number was detected.             *)
C9_Witness ==
    /\ pc = "rejected"
    /\ parseSize(opts.size).err
    /\ ~parseFrequency(opts.frequency, StartTime).err
    /\ fs.exists
    /\ number > 0

(* The matching files of the directory, and those of the current bucket.   *)
Matching == {f \in fs.files : MatchesName(f.name, opts.file, opts.extension, opts.dateFormat)}
FileNumber(f) == f.name[NumberIndex(opts.dateFormat)]
InBucket == {f \in Matching : f.time >= BucketStart(opts.frequency, StartTime)}
Highest(F) == CHOOSE f \in F : \A g \in F : FileNumber(g) <= FileNumber(f)

Calendar == opts.frequency.kind \in {"daily", "hourly"}

(* The destination was constructed at number n and has not rolled.         *)
StartedAt(n) ==
    /\ number = n
    /\ destination.dest = buildFileName(opts.file, n, opts.extension, opts.dateFormat, StartTime)
    /\ destination.reopens = <<>>
    /\ rollLog = <<>>

(* C10 as stated: with "daily" or "hourly", when the highest existing file *)
(* is of the current bucket the engine starts at its number, on that file, *)
(* without rolling; when it is of a prior bucket the engine starts at 0.   *)
C10_Stated ==
    (pc = "live" /\ Calendar /\ Matching # {})
        => IF \E f \in InBucket : FileNumber(f) = FileNumber(Highest(Matching))
           THEN StartedAt(FileNumber(Highest(Matching)))
           ELSE StartedAt(0)

(* C10, amended: with "daily" or "hourly" the engine starts at the highest *)
(* number among the existing files of the current bucket, on that file,    *)
(* without rolling, and at 0 when no existing file is of the current       *)
(* bucket; files of a prior bucket are ignored, also a higher-numbered one. *)
C10_ResumesInBucket ==
    (pc = "live" /\ Calendar)
        => IF InBucket # {}
           THEN StartedAt(FileNumber(Highest(InBucket)))
           ELSE StartedAt(0)

(* The highest file is of a prior bucket, a lower one of the current one.  *)
C10_Witness ==
    /\ pc = "live"
    /\ Calendar
    /\ InBucket # {}
    /\ \A f \in InBucket : FileNumber(f) < FileNumber(Highest(Matching))
    /\ number = FileNumber(Highest(InBucket))
    /\ number > 0

(* C11 as stated: with a numeric frequency every start opens a fresh file  *)
(* at the next sequence number: the first path of the destination is the   *)
(* path of no file of the directory, and its number is above the number of *)
(* every file an earlier run has left.                                     *)
C11_Stated ==
    (pc = "live" /\ opts.frequency.kind = "ms")
        => /\ \A f \in fs.files : f.name # destination.dest
           /\ \A f \in Matching : FileNumber(f) < number

----------------------------------------------------------------------------
(* Properties of the handlers, continued (Spec)                            *)

(* C12 as stated: every call of roll, whatever its trigger, increments     *)
(* currentNumber, resets currentBytes to 0, asks the destination to reopen *)
(* at the new path and, with a frequency, recomputes the next deadline.    *)
C12_Stated ==
    [][(Live /\ RollStep) =>
          /\ number' = number + 1
          /\ currentSize' = 0
          /\ destination'.reopens =
                Append(destination.reopens,
                       buildFileName(opts.file, number', opts.extension, opts.dateFormat, now))
          /\ frequencySpec.defined =>
                frequencySpec'.next = getNext(opts.frequency, now)]_vars

(* C14 as stated: with a frequency at most one frequency timer is armed,   *)
(* exactly one while the destination has not emitted 'close', and every    *)
(* firing is one call of roll, then the next deadline, then the re-arming. *)
C14_Armed ==
    (Live /\ frequencySpec.defined)
        => /\ Cardinality(timers) <= 1
           /\ ~destination.closed => Cardinality(timers) = 1

C14_Step ==
    \A throws \in BOOLEAN :
        TimerFire(throws) =>
            /\ RollStep
            /\ lastRun'.effects = <<"reopen", "getNext", "clearTimeout", "setTimeout">>

C14_Stated == [](C14_Armed) /\ [][C14_Step]_vars

(* C15 as stated: with mkdir the 'error' handler writes its message before *)
(* it rolls, no exception escapes it, and a reopen that fails is reported  *)
(* by a second message: every 'error' event writes its message.            *)
C15_Stated ==
    [][\A throws \in BOOLEAN :
          (Error(throws) /\ opts.mkdir) =>
              /\ lastRun'.effects[1] = "stderr"
              /\ uncaught' = uncaught
              /\ Len(stderr') = Len(stderr) + (IF throws THEN 2 ELSE 1)]_vars

(* C18: without a frequency there is no next deadline and no frequency     *)
(* timer is ever armed or fires; without a size threshold (none given, or  *)
(* one parsed as 0) a write notification changes neither currentBytes nor  *)
(* currentNumber and arms no roll.                                         *)
C18_Idle ==
    Live =>
        /\ opts.frequency.kind = "absent" =>
              /\ ~frequencySpec.defined
              /\ timers = {}
              /\ rollTimeout = 0
              /\ \A i \in DOMAIN rollLog : rollLog[i] # "timer"
        /\ ~Truthy(maxSize) =>
              /\ currentSize = 0
              /\ pendingRolls = <<>>
              /\ \A i \in DOMAIN rollLog : rollLog[i] # "size"

C18_Step ==
    \A w \in WriteSizes :
        (Write(w) /\ ~Truthy(maxSize)) =>
            /\ currentSize' = currentSize
            /\ number' = number
            /\ pendingRolls' = pendingRolls
            /\ destination' = destination
            /\ timers' = timers

C18_NotConfigured == [](C18_Idle) /\ [][C18_Step]_vars

(* A write is notified, and time passes, with a size parsed as 0 and no    *)
(* frequency.                                                              *)
C18_Witness ==
    /\ Live
    /\ maxSize.defined
    /\ maxSize.bytes = 0
    /\ opts.frequency.kind = "absent"
    /\ lastRun = [handler |-> "write", effects |-> <<>>]
    /\ now > StartTime

----------------------------------------------------------------------------
(* Properties under fair scheduling (SpecFair)                             *)

(* The calls of roll a trigger has made.                                   *)
RollsBy(trigger) == Cardinality({i \in DOMAIN rollLog : rollLog[i] = trigger})

(* A frequency timer is armed on an open destination for a deadline the    *)
(* clock reaches.                                                          *)
DeadlineArmed ==
    /\ Live
    /\ frequencySpec.defined
    /\ ~destination.closed
    /\ \E tm \in timers : tm.at <= MaxTime

(* C16 as stated: under fair scheduling of the timers, and unless the      *)
(* destination is closed, every armed deadline is followed by a timer roll *)
(* and a newly armed deadline, whatever the other triggers do (as far as   *)
(* the model follows the rolls).                                           *)
C16_Stated ==
    \A n \in 0..MaxRolls :
        (DeadlineArmed /\ RollsBy("timer") = n)
            ~> \/ destination.closed
               \/ ~CanRoll
               \/ RollsBy("timer") > n /\ timers # {}

(* C17: with a size threshold, 0 <= currentBytes < maxSize between the     *)
(* handlers, whatever the sizes notified; an armed size roll is removed    *)
(* only by its own execution, one call of roll each, never by a timer,     *)
(* signal or error roll; and under fair scheduling an armed size roll is   *)
(* executed (as far as the model follows the rolls).                       *)
C17_Below ==
    (Live /\ Truthy(maxSize)) => (0 <= currentSize /\ currentSize < maxSize.bytes)

C17_Step ==
    Live =>
        /\ Len(pendingRolls') >= Len(pendingRolls) - 1
        /\ Len(pendingRolls') < Len(pendingRolls) =>
              /\ rollLog' = Append(rollLog, "size")
              /\ number' = number + 1
        /\ (RollStep /\ rollLog'[Len(rollLog')] = "size") =>
              Len(pendingRolls') = Len(pendingRolls) - 1
        /\ (RollStep /\ rollLog'[Len(rollLog')] # "size") =>
              pendingRolls' = pendingRolls

C17_Executed == (pendingRolls # <<>>) ~> (pendingRolls = <<>> \/ ~CanRoll)

C17_SizeRollsRun == [](C17_Below) /\ [][C17_Step]_vars /\ C17_Executed

(* An armed size roll has run after a roll of another trigger.             *)
C17_Witness ==
    /\ lastRun.handler = "deferredRoll"
    /\ rollLog \in {<<"signal", "size">>, <<"error", "size">>}
    /\ pendingRolls = <<>>
    /\ currentSize > 0
    /\ currentSize < maxSize.bytes

----------------------------------------------------------------------------
(* Properties on an asynchronous destination (SpecAsync)                   *)

(* C13 as stated: on a destination whose reopen is asynchronous no roll    *)
(* begins while a reopen an earlier roll has requested is not yet answered *)
(* by the destination (here in the runs where no reopen has thrown).       *)
C13_Stated ==
    [][(Live /\ ~opts.sync /\ ~uncaught /\ RollStep) => destination.unacked = 0]_vars

====
